---- MODULE Spec2Model ----
(***************************************************************************)
(* Model of assets/js/book.js: the DOM extraction (parseDataFromDOM,       *)
(* parseHTMLTable), the renderer (renderCurrentSpread, renderWordList,     *)
(* createWordElement, updateNavigation) and the debounced navigation       *)
(* (navigateToSpread, executeNavigation, the key, click and button         *)
(* handlers, openBookView).                                                *)
(*                                                                         *)
(* Text is a sequence of one-element strings (characters).  The Korean     *)
(* words of the source are written as one ASCII token each:                *)
(*   "MEMO" for the tag word of the memo pattern (line 160),               *)
(*   "PHOTO" for the tag word of the photo pattern (line 164),             *)
(*   "NL" for a line feed.                                                 *)
(* An optional value (null or a value) is a sequence of length 0 or 1.     *)
(* Indices of BookApp (currentSpreadIndex, the navigation targets) are     *)
(* 0-based as in the source; spreads[i + 1] is the spread of index i.      *)
(***************************************************************************)
EXTENDS Integers, Sequences, FiniteSets, TLC

\* ------------------------------------------------------------------------
\* Program constants
\* ------------------------------------------------------------------------
wordsPerPage == 10
MAX_ROWS == 10

\* ------------------------------------------------------------------------
\* Bounds of the model
\* ------------------------------------------------------------------------
\* number of child blocks of #markdown-content in the extraction runs
MaxBlocks == 4
\* number of content sections of the documents of the navigation runs
MaxSections == 2
\* words of the largest table beyond wordsPerPage
MaxOverflow == 1
\* number of setTimeout calls of one page session
MaxTimers == 3
\* number of elements missing from the host page
MaxAbsent == 1

\* ------------------------------------------------------------------------
\* Optional values and text helpers
\* ------------------------------------------------------------------------
Null == <<>>
Some(v) == <<v>>
IsNull(o) == o = <<>>

Max(a, b) == IF a >= b THEN a ELSE b

\* The whitespace String.prototype.trim removes.
IsSpace(c) == c \in {" ", "NL"}

RECURSIVE trimStart(_)
trimStart(s) ==
    IF s # <<>> /\ IsSpace(Head(s)) THEN trimStart(Tail(s)) ELSE s

RECURSIVE trimEnd(_)
trimEnd(s) ==
    IF s # <<>> /\ IsSpace(s[Len(s)])
    THEN trimEnd(SubSeq(s, 1, Len(s) - 1))
    ELSE s

\* String.prototype.trim
trim(s) == trimEnd(trimStart(s))

\* String.prototype.startsWith for a one-character prefix
startsWith(s, c) == s # <<>> /\ Head(s) = c

\* Position of the first element of s at or after position from that is
\* (inSet = TRUE) or is not (inSet = FALSE) in the set, 0 when there is none.
RECURSIVE firstIndex(_, _, _, _)
firstIndex(s, from, set, inSet) ==
    IF from > Len(s) THEN 0
    ELSE IF (s[from] \in set) = inSet THEN from
    ELSE firstIndex(s, from + 1, set, inSet)

\* text.match(/\[TAG:\s*(.*?)\]/): the capture group of the first match as
\* an optional text.  The match starts at the leftmost "[", TAG, ":" that
\* has a "]" on the same line after it; \s* takes the spaces that follow
\* the colon and the lazy group stops at the first "]".
RECURSIVE matchFrom(_, _, _)
matchFrom(text, tag, p) ==
    IF p + 2 > Len(text) THEN Null
    ELSE IF text[p] = "[" /\ text[p + 1] = tag /\ text[p + 2] = ":"
    THEN LET \* \s* is greedy, and gives characters back only when the rest
             \* of the pattern cannot match otherwise
             g == firstIndex(text, p + 3, {" ", "NL"}, FALSE)
             \* the lazy group cannot cross a line feed
             lineStop == firstIndex(text, IF g = 0 THEN Len(text) + 1 ELSE g, {"]", "NL"}, TRUE)
         IN  IF g # 0 /\ lineStop # 0 /\ text[lineStop] = "]"
             THEN Some(SubSeq(text, g, lineStop - 1))
             ELSE matchFrom(text, tag, p + 1)
    ELSE matchFrom(text, tag, p + 1)

\* The capture group of the match that starts last, at or before position p.
RECURSIVE matchBack(_, _, _)
matchBack(text, tag, p) ==
    IF p < 1 THEN Null
    ELSE IF ~IsNull(matchFrom(text, tag, p)) THEN matchFrom(text, tag, p)
    ELSE matchBack(text, tag, p - 1)

\* text.match that returns the last occurrence instead of the first.
matchTag_LastMatch(text, tag) == matchBack(text, tag, Len(text))

matchTag(text, tag) == matchFrom(text, tag, 1)

\* ------------------------------------------------------------------------
\* The host document: the children of #markdown-content
\* ------------------------------------------------------------------------
\* A child element: its tagName, its textContent and, for a table, the
\* cell texts of its tbody rows.
Block(tagName, text, rows) == [tagName |-> tagName, text |-> text, rows |-> rows]
Heading(text) == Block("H2", text, <<>>)
Paragraph(text) == Block("P", text, <<>>)
Table(rows) == Block("TABLE", <<>>, rows)
Other == Block("DIV", <<>>, <<>>)

\* ------------------------------------------------------------------------
\* 3. Extraction
\* ------------------------------------------------------------------------
\* The cells of a row from the third one on, trimmed, empty ones dropped.
RECURSIVE developedOf(_, _)
developedOf(cells, i) ==
    IF i > Len(cells) THEN <<>>
    ELSE LET text == trim(cells[i])
         IN  (IF text # <<>> THEN <<text>> ELSE <<>>) \o developedOf(cells, i + 1)

\* parseHTMLTable's loop that keeps the rows of one cell too, with an empty
\* first attempt.
RECURSIVE parseRows_OneCell(_)
parseRows_OneCell(rows) ==
    IF rows = <<>> THEN <<>>
    ELSE LET cells == Head(rows)
         IN  (IF Len(cells) >= 1
              THEN << [word |-> trim(cells[1]),
                       first |-> IF Len(cells) >= 2 THEN trim(cells[2]) ELSE <<>>,
                       developed |-> developedOf(cells, 3)] >>
              ELSE <<>>) \o parseRows_OneCell(Tail(rows))

RECURSIVE parseRows(_)
parseRows(rows) ==
    IF rows = <<>> THEN <<>>
    ELSE LET cells == Head(rows)
         IN  (IF Len(cells) >= 2
              THEN << [word |-> trim(cells[1]),
                       first |-> trim(cells[2]),
                       developed |-> developedOf(cells, 3)] >>
              ELSE <<>>) \o parseRows(Tail(rows))

parseHTMLTable(table) == parseRows(table.rows)

coverSpread(prologue) ==
    [type |-> "cover", title |-> <<"COVER">>, prologue |-> prologue, toc |-> <<>>]

newSpread(title) ==
    [type |-> "content", title |-> title, memo |-> Null, photo |-> Null, words |-> <<>>]

\* The locals of parseDataFromDOM before the first child is visited.
ScanStart ==
    [spreads |-> <<>>, currentSpread |-> Null, isIntroSection |-> FALSE, prologue |-> <<>>]

\* The forEach callback without the intro section: every H2 starts a spread.
scanNode_NoIntro(st, node) ==
    IF node.tagName = "H2"
    THEN [st EXCEPT !.spreads = st.spreads \o st.currentSpread,
                    !.currentSpread = Some(newSpread(trim(node.text)))]
    ELSE IF ~IsNull(st.currentSpread)
    THEN LET cur == st.currentSpread[1]
         IN  IF node.tagName = "P"
             THEN LET text == trim(node.text)
                      memoMatch == matchTag(text, "MEMO")
                      photoMatch == matchTag(text, "PHOTO")
                      withMemo == IF ~IsNull(memoMatch)
                                  THEN [cur EXCEPT !.memo = Some(trim(memoMatch[1]))]
                                  ELSE cur
                      withPhoto == IF ~IsNull(photoMatch)
                                   THEN [withMemo EXCEPT !.photo = Some(trim(photoMatch[1]))]
                                   ELSE withMemo
                  IN  [st EXCEPT !.currentSpread = Some(withPhoto)]
             ELSE IF node.tagName = "TABLE"
             THEN [st EXCEPT !.currentSpread = Some([cur EXCEPT !.words = parseHTMLTable(node)])]
             ELSE st
    ELSE st

\* The body of the forEach callback of parseDataFromDOM for one child.
scanNode(st, node) ==
    IF node.tagName = "H2"
    THEN IF st.spreads = <<>> /\ IsNull(st.currentSpread) /\ ~st.isIntroSection
         THEN [st EXCEPT !.isIntroSection = TRUE]
         ELSE [st EXCEPT !.isIntroSection = FALSE,
                         !.spreads = st.spreads \o st.currentSpread,
                         !.currentSpread = Some(newSpread(trim(node.text)))]
    ELSE IF st.isIntroSection
    THEN IF node.tagName = "P"
         THEN LET text == trim(node.text)
              IN  IF text # <<>> /\ ~startsWith(text, "[")
                  THEN [st EXCEPT !.prologue = st.prologue \o text \o <<"NL", "NL">>]
                  ELSE st
         ELSE st
    ELSE IF ~IsNull(st.currentSpread)
    THEN LET cur == st.currentSpread[1]
         IN  IF node.tagName = "P"
             THEN LET text == trim(node.text)
                      memoMatch == matchTag(text, "MEMO")
                      photoMatch == matchTag(text, "PHOTO")
                      withMemo == IF ~IsNull(memoMatch)
                                  THEN [cur EXCEPT !.memo = Some(trim(memoMatch[1]))]
                                  ELSE cur
                      withPhoto == IF ~IsNull(photoMatch)
                                   THEN [withMemo EXCEPT !.photo = Some(trim(photoMatch[1]))]
                                   ELSE withMemo
                  IN  [st EXCEPT !.currentSpread = Some(withPhoto)]
             ELSE IF node.tagName = "TABLE"
             THEN [st EXCEPT !.currentSpread = Some([cur EXCEPT !.words = parseHTMLTable(node)])]
             ELSE st
    ELSE st

RECURSIVE scanChildren(_, _)
scanChildren(st, children) ==
    IF children = <<>> THEN st
    ELSE scanChildren(scanNode(st, Head(children)), Tail(children))

\* parseDataFromDOM without the early return for a missing #markdown-content.
parseDataFromDOM_NoGuard(app, hasContent, children) ==
    LET st == scanChildren(ScanStart, children)
        all == <<coverSpread(st.prologue)>> \o st.spreads \o st.currentSpread
    IN  [app EXCEPT !.spreads = all, !.totalSpreads = Len(all)]

\* parseDataFromDOM with the cover appended after the content spreads.
parseDataFromDOM_CoverLast(app, hasContent, children) ==
    IF ~hasContent THEN app
    ELSE LET st == scanChildren(ScanStart, children)
             all == st.spreads \o st.currentSpread \o <<coverSpread(st.prologue)>>
         IN  [app EXCEPT !.spreads = all, !.totalSpreads = Len(all)]

\* BookApp after parseDataFromDOM: spreads and totalSpreads are assigned
\* unless #markdown-content is missing, and then nothing is.
parseDataFromDOM(app, hasContent, children) ==
    IF ~hasContent THEN app
    ELSE LET st == scanChildren(ScanStart, children)
             all == <<coverSpread(st.prologue)>> \o st.spreads \o st.currentSpread
         IN  [app EXCEPT !.spreads = all, !.totalSpreads = Len(all)]

\* ------------------------------------------------------------------------
\* The host page
\* ------------------------------------------------------------------------
\* The fields of BookApp.elements the code reads (initializeElements).
ElementFields ==
    {"listView", "bookView", "btnOpenBook", "leftPage", "rightPage", "wordList",
     "leftPageNumber", "rightPageNumber", "prevBtn", "nextBtn"}

\* The elements the code looks up in the document when it needs them.
QueriedElements ==
    {"markdown-content", "coverLayer", "contentLayerLeft", "introLayer",
     "contentLayerRight", "prologueEl", "memoEl", "photoTextEl"}

ElementNames == ElementFields \cup QueriedElements

\* What a text surface shows before the code writes it.
HostText == <<"HOST">>

\* The presentation state of the page as the host markup ships it.
HostView(bookActive) ==
    [listViewActive |-> ~bookActive,
     bookViewActive |-> bookActive,
     coverLayer |-> "",
     contentLayerLeft |-> "",
     introLayer |-> "",
     contentLayerRight |-> "",
     prologue |-> HostText,
     wordList |-> <<>>,
     memo |-> HostText,
     photo |-> HostText,
     leftPageNumber |-> Null,
     rightPageNumber |-> Null,
     prevDisabled |-> FALSE,
     nextDisabled |-> FALSE,
     firstPage |-> FALSE,
     lastPage |-> FALSE]

\* ------------------------------------------------------------------------
\* 5. Rendering
\* ------------------------------------------------------------------------
\* textContent written, innerHTML read back: the markup characters become
\* character references.
escapeChar(c) ==
    CASE c = "&" -> <<"&", "a", "m", "p", ";">>
      [] c = "<" -> <<"&", "l", "t", ";">>
      [] c = ">" -> <<"&", "g", "t", ";">>
      [] OTHER -> <<c>>

RECURSIVE escapeHtml(_)
escapeHtml(text) ==
    IF text = <<>> THEN <<>> ELSE escapeChar(Head(text)) \o escapeHtml(Tail(text))

RECURSIVE escapeAll(_)
escapeAll(texts) ==
    IF texts = <<>> THEN <<>> ELSE <<escapeHtml(Head(texts))>> \o escapeAll(Tail(texts))

\* One row of the word grid for a word.
createWordElement(wordData, number) ==
    LET totalPronunciations == 1 + Len(wordData.developed)
    IN  [className |-> "word-item",
         overflow |-> IF totalPronunciations >= 5 THEN "overflow-5"
                      ELSE IF totalPronunciations >= 4 THEN "overflow-4"
                      ELSE "",
         number |-> Some(number),
         word |-> escapeHtml(wordData.word),
         first |-> escapeHtml(wordData.first),
         developed |-> escapeAll(wordData.developed)]

\* One padding row of the word grid.
emptyItem ==
    [className |-> "word-item empty-slot", overflow |-> "", number |-> Null,
     word |-> <<>>, first |-> <<>>, developed |-> <<>>]

\* renderWordList that numbers the rows from startIndex + 1.
renderWordList_OffByOne(words, startIndex, elements, oldRows) ==
    IF "wordList" \notin elements THEN oldRows
    ELSE LET remaining == MAX_ROWS - Len(words)
         IN  [index \in 1..Len(words) |-> createWordElement(words[index], startIndex + index)]
             \o [i \in 1..Max(remaining, 0) |-> emptyItem]

\* The children of #word-list after renderWordList; the grid is left as it
\* is when the element is missing.
renderWordList(words, startIndex, elements, oldRows) ==
    IF "wordList" \notin elements THEN oldRows
    ELSE LET remaining == MAX_ROWS - Len(words)
         IN  [index \in 1..Len(words) |-> createWordElement(words[index], startIndex + index - 1)]
             \o [i \in 1..Max(remaining, 0) |-> emptyItem]

updateNavigation(app, v) ==
    LET els == app.elements
        atFirst == app.currentSpreadIndex = 0
        atLast == app.currentSpreadIndex = app.totalSpreads - 1
    IN  [v EXCEPT !.prevDisabled = IF "prevBtn" \in els THEN atFirst ELSE @,
                  !.nextDisabled = IF "nextBtn" \in els THEN atLast ELSE @,
                  !.firstPage = IF "leftPage" \in els THEN atFirst ELSE @,
                  !.lastPage = IF "rightPage" \in els THEN atLast ELSE @]

\* The page after renderCurrentSpread, and whether the call raised an error
\* (leftPage.querySelector or rightPage.querySelector of a null element);
\* an error leaves the page as it was, since nothing is written before it.
renderCurrentSpread(app, present, v) ==
    IF app.spreads = <<>> \/ app.currentSpreadIndex + 1 \notin DOMAIN app.spreads
    THEN [view |-> v, threw |-> FALSE]
    ELSE IF "leftPage" \notin app.elements \/ "rightPage" \notin app.elements
    THEN [view |-> v, threw |-> TRUE]
    ELSE LET spreadData == app.spreads[app.currentSpreadIndex + 1]
             has(e) == e \in present
             shown ==
                 IF spreadData.type = "cover"
                 THEN [v EXCEPT
                         !.coverLayer = IF has("coverLayer") THEN "flex" ELSE @,
                         !.contentLayerLeft = IF has("contentLayerLeft") THEN "none" ELSE @,
                         !.introLayer = IF has("introLayer") THEN "block" ELSE @,
                         !.contentLayerRight = IF has("contentLayerRight") THEN "none" ELSE @,
                         !.prologue = IF has("prologueEl") THEN spreadData.prologue ELSE @]
                 ELSE LET startIndex == ((app.currentSpreadIndex - 1) * wordsPerPage) + 1
                          pLeft == app.currentSpreadIndex * 2
                          pRight == app.currentSpreadIndex * 2 + 1
                          memoText == IF IsNull(spreadData.memo) \/ spreadData.memo[1] = <<>>
                                      THEN <<"MEMO">>
                                      ELSE spreadData.memo[1]
                          photoText == IF IsNull(spreadData.photo) \/ spreadData.photo[1] = <<>>
                                       THEN <<"PHOTO", " ", "AREA">>
                                       ELSE <<"PHOTO", ":", " ">> \o spreadData.photo[1]
                      IN  [v EXCEPT
                             !.coverLayer = IF has("coverLayer") THEN "none" ELSE @,
                             !.contentLayerLeft = IF has("contentLayerLeft") THEN "flex" ELSE @,
                             !.introLayer = IF has("introLayer") THEN "none" ELSE @,
                             !.contentLayerRight = IF has("contentLayerRight") THEN "block" ELSE @,
                             !.wordList = renderWordList(spreadData.words, startIndex, app.elements, @),
                             !.memo = IF has("memoEl") THEN memoText ELSE @,
                             !.photo = IF has("photoTextEl") THEN photoText ELSE @,
                             !.leftPageNumber =
                                 IF "leftPageNumber" \in app.elements THEN Some(pLeft) ELSE @,
                             !.rightPageNumber =
                                 IF "rightPageNumber" \in app.elements THEN Some(pRight) ELSE @]
         IN  [view |-> updateNavigation(app, shown), threw |-> FALSE]

\* ------------------------------------------------------------------------
\* 5. Navigation
\* ------------------------------------------------------------------------
\* A pending setTimeout callback: its handle and the spreadIndex its closure
\* captured.
Timer(id, spreadIndex) == [id |-> id, spreadIndex |-> spreadIndex]

\* navigateToSpread without the clearTimeout.
navigateToSpread_NoClear(app, pending, id, spreadIndex) ==
    [app |-> [app EXCEPT !.debounceTimer = Some(id)],
     timers |-> pending \cup {Timer(id, spreadIndex)}]

\* BookApp and the pending timers after navigateToSpread(spreadIndex), id
\* being the handle setTimeout returns.  clearTimeout of a handle that has
\* fired removes nothing.
navigateToSpread(app, pending, id, spreadIndex) ==
    LET kept == IF ~IsNull(app.debounceTimer)
                THEN {t \in pending : t.id # app.debounceTimer[1]}
                ELSE pending
    IN  [app |-> [app EXCEPT !.debounceTimer = Some(id)],
         timers |-> kept \cup {Timer(id, spreadIndex)}]

\* executeNavigation without the range check of its first line.
executeNavigation_NoRange(app, present, v, spreadIndex) ==
    IF spreadIndex = app.currentSpreadIndex
    THEN [app |-> app, view |-> v, rendered |-> FALSE, threw |-> FALSE]
    ELSE LET moved == [app EXCEPT !.isTransitioning = TRUE,
                                  !.currentSpreadIndex = spreadIndex]
             r == renderCurrentSpread(moved, present, v)
         IN  IF r.threw
             THEN [app |-> moved, view |-> r.view, rendered |-> TRUE, threw |-> TRUE]
             ELSE [app |-> [moved EXCEPT !.isTransitioning = FALSE],
                   view |-> updateNavigation(moved, r.view),
                   rendered |-> TRUE, threw |-> FALSE]

\* BookApp and the page after executeNavigation(spreadIndex), whether it
\* called renderCurrentSpread and whether an error escaped from it.  An
\* error of renderCurrentSpread ends the function before updateNavigation
\* and before isTransitioning is reset.
executeNavigation(app, present, v, spreadIndex) ==
    IF spreadIndex < 0 \/ spreadIndex >= app.totalSpreads
    THEN [app |-> app, view |-> v, rendered |-> FALSE, threw |-> FALSE]
    ELSE IF spreadIndex = app.currentSpreadIndex
    THEN [app |-> app, view |-> v, rendered |-> FALSE, threw |-> FALSE]
    ELSE LET moved == [app EXCEPT !.isTransitioning = TRUE,
                                  !.currentSpreadIndex = spreadIndex]
             r == renderCurrentSpread(moved, present, v)
         IN  IF r.threw
             THEN [app |-> moved, view |-> r.view, rendered |-> TRUE, threw |-> TRUE]
             ELSE [app |-> [moved EXCEPT !.isTransitioning = FALSE],
                   view |-> updateNavigation(moved, r.view),
                   rendered |-> TRUE, threw |-> FALSE]

\* ------------------------------------------------------------------------
\* Documents of the runs
\* ------------------------------------------------------------------------
TitleText == <<"t">>
PrologueText == <<"h", "i">>
MemoParagraph == <<"[", "MEMO", ":", " ", "a", "]">>
PhotoParagraph == <<" ", "[", "PHOTO", ":", "b", " ", "]">>
BracketParagraph == <<"[", "x", "]">>
\* a paragraph that carries each tag twice
DoubleTagParagraph ==
    <<"[", "MEMO", ":", "a", "]", "[", "PHOTO", ":", "c", "]",
      "[", "MEMO", ":", " ", "b", " ", "]", "[", "PHOTO", ":", "d", "]">>

CatRow == << <<"c", "a", "t">>, <<"k">> >>
DogRow == << <<"d", "o", "g">>, <<" ", "d", "g">>, <<"d", "k">> >>
ShortRow == << <<"c", "a", "t">> >>
\* a row whose first cell holds white space only
BlankRow == << <<" ">>, <<"k">> >>

TableOfSize(n) == [i \in 1..n |-> IF i % 2 = 1 THEN CatRow ELSE DogRow]

\* The numbers of words of the sections of a document, in turn: none, too
\* many for a page, a few, a full page.
SectionSizes == <<0, wordsPerPage + MaxOverflow, 2, wordsPerPage>>

Section(n) == <<Heading(TitleText), Paragraph(MemoParagraph), Table(TableOfSize(n))>>

RECURSIVE Sections(_)
Sections(sizes) ==
    IF sizes = <<>> THEN <<>> ELSE Section(Head(sizes)) \o Sections(Tail(sizes))

\* A document as the site writes it: the intro heading with its prologue,
\* then one heading, memo and table per section.
Book(sizes) == <<Heading(TitleText), Paragraph(PrologueText)>> \o Sections(sizes)

\* The documents of the navigation runs: no block at all, the intro alone,
\* and the books of up to MaxSections sections whose sizes follow
\* SectionSizes from any of its positions.
NavDocuments ==
    {<<>>, Book(<<>>)}
        \cup {Book([i \in 1..n |-> SectionSizes[((i + r) % Len(SectionSizes)) + 1]]) :
                 n \in 1..MaxSections, r \in 1..Len(SectionSizes)}

SeqsUpTo(S, n) == UNION {[1..k -> S] : k \in 0..n}

\* The layers of the two pages; the host pages of the runs have them.
LayerElements == {"coverLayer", "contentLayerLeft", "introLayer", "contentLayerRight"}

\* The host pages: every element is there except at most MaxAbsent of those
\* that are not layers.
HostPages ==
    {ElementNames \ a :
        a \in {x \in SUBSET (ElementNames \ LayerElements) : Cardinality(x) <= MaxAbsent}}

\* The blocks of the documents of the extraction runs.
ExtractionBlocks ==
    {Heading(TitleText), Other,
     Paragraph(PrologueText), Paragraph(MemoParagraph), Paragraph(PhotoParagraph),
     Paragraph(BracketParagraph), Paragraph(DoubleTagParagraph),
     Table(<<>>), Table(<<CatRow, DogRow>>), Table(<<ShortRow, DogRow, BlankRow>>)}

ExtractionDocuments == SeqsUpTo(ExtractionBlocks, MaxBlocks)

\* ------------------------------------------------------------------------
\* State
\* ------------------------------------------------------------------------
VARIABLES
    page,         \* the host page: the children of #markdown-content, the elements that
                  \* exist, whether #book-view ships with the class active
    BookApp,      \* the global BookApp object
    view,         \* what the page presents
    timers,       \* the setTimeout callbacks that have not fired
    nextTimerId,  \* the handle the next setTimeout returns
    phase,        \* "loading" until DOMContentLoaded has been handled, then "ready"
    log           \* observations: errors that reached the event loop, the burst of requests

vars == <<page, BookApp, view, timers, nextTimerId, phase, log>>

\* The BookApp literal.
NewBookApp ==
    [spreads |-> <<>>,
     currentSpreadIndex |-> 0,
     totalSpreads |-> 0,
     elements |-> {},
     isTransitioning |-> FALSE,
     debounceTimer |-> Null]

NewLog ==
    [errors |-> {},       \* the functions from which an error reached the event loop
     rendered |-> FALSE,  \* the last handler called renderCurrentSpread
     requests |-> 0,      \* navigateToSpread calls of the current burst
     lastTarget |-> Null, \* the argument of the last navigateToSpread call
     relative |-> FALSE,  \* that argument was computed from currentSpreadIndex
     commits |-> <<>>]    \* the arguments of the executeNavigation calls of the current burst

InitWith(documents, pages) ==
    /\ page \in [children : documents, present : pages, bookActive : BOOLEAN]
    /\ BookApp = NewBookApp
    /\ view = HostView(page.bookActive)
    /\ timers = {}
    /\ nextTimerId = 1
    /\ phase = "loading"
    /\ log = NewLog

Init == InitWith(NavDocuments, HostPages)

InitExtract == InitWith(ExtractionDocuments, {ElementNames})

contentFound == "markdown-content" \in page.present

\* ------------------------------------------------------------------------
\* Handlers
\* ------------------------------------------------------------------------
\* The DOMContentLoaded listener: initializeElements, parseDataFromDOM,
\* setupEventListeners, renderCurrentSpread.
DOMContentLoaded ==
    /\ phase = "loading"
    /\ LET found == [BookApp EXCEPT !.elements = page.present \cap ElementFields]
           parsed == parseDataFromDOM(found, contentFound, page.children)
           r == renderCurrentSpread(parsed, page.present, view)
       IN  /\ BookApp' = parsed
           /\ view' = r.view
           /\ log' = [log EXCEPT !.rendered = TRUE,
                                 !.errors = IF r.threw THEN @ \cup {"renderCurrentSpread"} ELSE @]
    /\ phase' = "ready"
    /\ UNCHANGED <<page, timers, nextTimerId>>

\* A handler calls navigateToSpread(spreadIndex) and returns; relative tells
\* that it computed spreadIndex as currentSpreadIndex - 1 or + 1.
Request(spreadIndex, relative) ==
    /\ nextTimerId <= MaxTimers
    /\ LET r == navigateToSpread(BookApp, timers, nextTimerId, spreadIndex)
       IN  /\ BookApp' = r.app
           /\ timers' = r.timers
    /\ nextTimerId' = nextTimerId + 1
    /\ log' = [log EXCEPT !.rendered = FALSE,
                          !.requests = IF timers = {} THEN 1 ELSE @ + 1,
                          !.commits = IF timers = {} THEN <<>> ELSE @,
                          !.lastTarget = Some(spreadIndex),
                          !.relative = relative]
    /\ UNCHANGED <<page, view, phase>>

\* A handler returns without calling anything.
Ignored ==
    /\ log' = [log EXCEPT !.rendered = FALSE]
    /\ UNCHANGED <<page, BookApp, view, timers, nextTimerId, phase>>

\* A handler ends with an error.
Raised(function) ==
    /\ log' = [log EXCEPT !.rendered = FALSE, !.errors = @ \cup {function}]
    /\ UNCHANGED <<page, BookApp, view, timers, nextTimerId, phase>>

Keys == {"ArrowRight", "ArrowLeft", "Home", "End", "Escape"}

\* handleKeyboard without the test of the class active of #book-view.
handleKeyboard_AlwaysActive(key) ==
    /\ phase = "ready"
    /\ IF "bookView" \notin BookApp.elements THEN Raised("handleKeyboard")
       ELSE IF BookApp.isTransitioning THEN Ignored
       ELSE CASE key = "ArrowRight" -> Request(BookApp.currentSpreadIndex + 1, TRUE)
              [] key = "ArrowLeft" -> Request(BookApp.currentSpreadIndex - 1, TRUE)
              [] key = "Home" -> Request(0, FALSE)
              [] key = "End" -> Request(BookApp.totalSpreads - 1, FALSE)
              [] OTHER -> Ignored

\* The keydown listener of the document.
handleKeyboard(key) ==
    /\ phase = "ready"
    /\ IF "bookView" \notin BookApp.elements THEN Raised("handleKeyboard")
       ELSE IF ~view.bookViewActive THEN Ignored
       ELSE IF BookApp.isTransitioning THEN Ignored
       ELSE CASE key = "ArrowRight" -> Request(BookApp.currentSpreadIndex + 1, TRUE)
              [] key = "ArrowLeft" -> Request(BookApp.currentSpreadIndex - 1, TRUE)
              [] key = "Home" -> Request(0, FALSE)
              [] key = "End" -> Request(BookApp.totalSpreads - 1, FALSE)
              [] OTHER -> Ignored

\* handleLeftPageClick that commits at once, without the timer.
handleLeftPageClick_Direct ==
    /\ phase = "ready"
    /\ "leftPage" \in BookApp.elements
    /\ IF BookApp.isTransitioning THEN Ignored
       ELSE IF BookApp.currentSpreadIndex > 0
       THEN /\ LET r == executeNavigation(BookApp, page.present, view,
                                          BookApp.currentSpreadIndex - 1)
               IN  /\ BookApp' = r.app
                   /\ view' = r.view
                   /\ log' = [log EXCEPT
                                !.rendered = r.rendered,
                                !.errors = IF r.threw THEN @ \cup {"renderCurrentSpread"} ELSE @]
            /\ UNCHANGED <<page, timers, nextTimerId, phase>>
       ELSE Ignored

\* The click listener of .page-left, registered when the element exists.
handleLeftPageClick ==
    /\ phase = "ready"
    /\ "leftPage" \in BookApp.elements
    /\ IF BookApp.isTransitioning THEN Ignored
       ELSE IF BookApp.currentSpreadIndex > 0 THEN Request(BookApp.currentSpreadIndex - 1, TRUE)
       ELSE Ignored

\* The click listener of .page-right, registered when the element exists.
handleRightPageClick ==
    /\ phase = "ready"
    /\ "rightPage" \in BookApp.elements
    /\ IF BookApp.isTransitioning THEN Ignored
       ELSE IF BookApp.currentSpreadIndex < BookApp.totalSpreads - 1
       THEN Request(BookApp.currentSpreadIndex + 1, TRUE)
       ELSE Ignored

\* The click listener of #prev-btn; a disabled button dispatches no click.
prevBtnClick ==
    /\ phase = "ready"
    /\ "prevBtn" \in BookApp.elements
    /\ ~view.prevDisabled
    /\ Request(BookApp.currentSpreadIndex - 1, TRUE)

\* The click listener of #next-btn; a disabled button dispatches no click.
nextBtnClick ==
    /\ phase = "ready"
    /\ "nextBtn" \in BookApp.elements
    /\ ~view.nextDisabled
    /\ Request(BookApp.currentSpreadIndex + 1, TRUE)

\* openBookView that also goes back to the first spread.
openBookView_FirstSpread ==
    /\ phase = "ready"
    /\ "btnOpenBook" \in BookApp.elements
    /\ LET toggled == [view EXCEPT
                         !.listViewActive = IF "listView" \in BookApp.elements THEN FALSE ELSE @,
                         !.bookViewActive = IF "bookView" \in BookApp.elements THEN TRUE ELSE @]
           parsed == IF BookApp.spreads = <<>>
                     THEN parseDataFromDOM(BookApp, contentFound, page.children)
                     ELSE [BookApp EXCEPT !.currentSpreadIndex = 0]
           r == renderCurrentSpread(parsed, page.present, toggled)
       IN  /\ BookApp' = parsed
           /\ view' = r.view
           /\ log' = [log EXCEPT !.rendered = TRUE,
                                 !.errors = IF r.threw THEN @ \cup {"renderCurrentSpread"} ELSE @]
    /\ UNCHANGED <<page, timers, nextTimerId, phase>>

\* The click listener of #btn-open-book.
openBookView ==
    /\ phase = "ready"
    /\ "btnOpenBook" \in BookApp.elements
    /\ LET toggled == [view EXCEPT
                         !.listViewActive = IF "listView" \in BookApp.elements THEN FALSE ELSE @,
                         !.bookViewActive = IF "bookView" \in BookApp.elements THEN TRUE ELSE @]
           parsed == IF BookApp.spreads = <<>>
                     THEN parseDataFromDOM(BookApp, contentFound, page.children)
                     ELSE BookApp
           r == renderCurrentSpread(parsed, page.present, toggled)
       IN  /\ BookApp' = parsed
           /\ view' = r.view
           /\ log' = [log EXCEPT !.rendered = TRUE,
                                 !.errors = IF r.threw THEN @ \cup {"renderCurrentSpread"} ELSE @]
    /\ UNCHANGED <<page, timers, nextTimerId, phase>>

\* The 50ms timer of navigateToSpread fires: executeNavigation(spreadIndex).
timerFires(t) ==
    /\ t \in timers
    /\ timers' = timers \ {t}
    /\ LET r == executeNavigation(BookApp, page.present, view, t.spreadIndex)
       IN  /\ BookApp' = r.app
           /\ view' = r.view
           /\ log' = [log EXCEPT !.rendered = r.rendered,
                                 !.commits = Append(@, t.spreadIndex),
                                 !.errors = IF r.threw THEN @ \cup {"renderCurrentSpread"} ELSE @]
    /\ UNCHANGED <<page, nextTimerId, phase>>

Next ==
    \/ DOMContentLoaded
    \/ \E key \in Keys : handleKeyboard(key)
    \/ handleLeftPageClick
    \/ handleRightPageClick
    \/ prevBtnClick
    \/ nextBtnClick
    \/ openBookView
    \/ \E t \in timers : timerFires(t)

Spec == Init /\ [][Next]_vars

\* The extraction alone, over every document of up to MaxBlocks blocks.
NextExtract == DOMContentLoaded

SpecExtract == InitExtract /\ [][NextExtract]_vars

TypeOK ==
    /\ phase \in {"loading", "ready"}
    /\ BookApp.currentSpreadIndex \in Int
    /\ BookApp.totalSpreads = Len(BookApp.spreads)
    /\ nextTimerId \in 1..(MaxTimers + 1)

\* ------------------------------------------------------------------------
\* Properties
\* ------------------------------------------------------------------------
Last(s) == s[Len(s)]

current == BookApp.currentSpreadIndex

\* The elements renderCurrentSpread dereferences are there.
PagesPresent == {"leftPage", "rightPage"} \subseteq page.present

\* C1: whenever the spread list is non-empty, currentSpreadIndex is an index
\* of it: 0 <= currentSpreadIndex < length of the spread list.
C1_IndexInRange ==
    BookApp.spreads # <<>> => 0 <= current /\ current < Len(BookApp.spreads)

\* C1 witness: the book is at its last spread, which is not the first, and
\* the last timer asked for the spread after it.
C1_Witness ==
    /\ current = BookApp.totalSpreads - 1
    /\ current > 0
    /\ timers = {}
    /\ log.commits = <<BookApp.totalSpreads>>

\* C2: a burst of navigateToSpread calls, each made while the timer of the
\* previous one is pending, runs executeNavigation exactly once, with the
\* target of the last call: nothing is committed while a timer is pending,
\* and once none is, the commits of the burst are the last target alone.
C2_DebounceLastWins ==
    /\ timers # {} => log.commits = <<>>
    /\ timers = {} /\ log.requests > 0 => log.commits = log.lastTarget

\* C2 witness: a burst of at least two requests has been committed, and it
\* changed the spread.
C2_Witness ==
    /\ log.requests >= 2
    /\ timers = {}
    /\ log.commits = <<current>>
    /\ log.rendered

NoOpTarget(spreadIndex) ==
    \/ spreadIndex < 0
    \/ spreadIndex >= BookApp.totalSpreads
    \/ spreadIndex = current

\* C3: executeNavigation(target) with target < 0, target >= totalSpreads or
\* target = currentSpreadIndex leaves currentSpreadIndex unchanged, renders
\* nothing and leaves isTransitioning false.
C3_NoOpCommit ==
    [][\A t \in timers :
         timerFires(t) /\ NoOpTarget(t.spreadIndex)
            => /\ BookApp'.currentSpreadIndex = current
               /\ ~log'.rendered
               /\ view' = view
               /\ ~BookApp'.isTransitioning]_vars

\* C4: at most one scheduled navigation timer is pending at any moment.
C4_OneTimer == Cardinality(timers) <= 1

\* C4 witness: a request has been made while the timer of the previous one
\* was pending, and one timer is pending.
C4_Witness ==
    /\ log.requests >= 2
    /\ Cardinality(timers) = 1

\* What renderCurrentSpread and updateNavigation write is as the host page
\* shipped it.
RenderUntouched ==
    view = [HostView(page.bookActive) EXCEPT !.listViewActive = view.listViewActive,
                                             !.bookViewActive = view.bookViewActive]

\* C5 as claimed: a source without content blocks gives totalSpreads = 0, a
\* currentSpreadIndex no request changes and a render that writes nothing.
C5_EmptySource ==
    phase = "ready" /\ (~contentFound \/ page.children = <<>>)
        => /\ BookApp.totalSpreads = 0
           /\ current = 0
           /\ RenderUntouched

\* C5 amended: when #markdown-content is missing, totalSpreads is 0 after
\* extraction, no navigation request changes currentSpreadIndex and
\* renderCurrentSpread writes to no surface; when it is there without a
\* block, totalSpreads is 1 (the cover) and no navigation request changes
\* currentSpreadIndex.
C5_MissingSource ==
    /\ phase = "ready" /\ ~contentFound
        => /\ BookApp.totalSpreads = 0
           /\ BookApp.spreads = <<>>
           /\ current = 0
           /\ RenderUntouched
    /\ phase = "ready" /\ contentFound /\ page.children = <<>>
        => /\ BookApp.totalSpreads = 1
           /\ current = 0

\* C5 witness: without #markdown-content, the timer of a navigation request
\* has fired after the book view was opened.
C5_Witness ==
    /\ ~contentFound
    /\ ~page.bookActive /\ view.bookViewActive
    /\ timers = {}
    /\ log.commits # <<>>

CoverPositions == {i \in DOMAIN BookApp.spreads : BookApp.spreads[i].type = "cover"}

\* C6: after a successful extraction the spread list is non-empty, and it
\* never holds a cover spread anywhere but at index 0.
C6_OneCoverFirst ==
    /\ phase = "ready" /\ contentFound => BookApp.spreads # <<>>
    /\ CoverPositions \subseteq {1}

\* C6 witness: a document with content spreads has been extracted, the book
\* view has been opened and a navigation committed.
C6_Witness ==
    /\ contentFound
    /\ Len(BookApp.spreads) >= 2
    /\ ~page.bookActive /\ view.bookViewActive
    /\ current > 0

\* C7: no error escapes renderCurrentSpread, whichever elements are missing.
C7_RenderNeverFails == "renderCurrentSpread" \notin log.errors

\* A content spread is on display: it is the current one and the render of
\* it reached the word grid.
ContentRendered ==
    /\ phase = "ready"
    /\ current >= 1
    /\ PagesPresent
    /\ "wordList" \in page.present

\* C8: when a content spread has been rendered, the word grid has exactly
\* wordsPerPage rows.
C8_GridHasTenRows == ContentRendered => Len(view.wordList) = wordsPerPage

HeadingPositions(children) == {i \in DOMAIN children : children[i].tagName = "H2"}

ContentSpreads == {i \in DOMAIN BookApp.spreads : BookApp.spreads[i].type = "content"}

OneHeadingSource ==
    <<Heading(TitleText), Paragraph(MemoParagraph), Table(<<CatRow, DogRow>>)>>

ScenarioSpread ==
    [type |-> "content", title |-> TitleText, memo |-> Some(<<"a">>), photo |-> Null,
     words |-> << [word |-> <<"c", "a", "t">>, first |-> <<"k">>, developed |-> <<>>],
                  [word |-> <<"d", "o", "g">>, first |-> <<"d", "g">>,
                   developed |-> << <<"d", "k">> >>] >>]

\* C9 as claimed: every heading starts a content spread, so k headings give
\* k content spreads, and one heading with a memo paragraph and a two-row
\* table gives one content spread with that memo and those words.
C9_EveryHeadingStartsSpread ==
    phase = "ready"
        => /\ Cardinality(ContentSpreads) = Cardinality(HeadingPositions(page.children))
           /\ page.children = OneHeadingSource
                => BookApp.spreads = <<coverSpread(<<>>), ScenarioSpread>>

\* The blocks a heading collects: those after it up to the next heading.
SectionOf(children, h) ==
    {i \in DOMAIN children :
        /\ i > h
        /\ \A j \in HeadingPositions(children) : j > h => i < j}

\* The k-th heading of the children.
NthHeading(children, k) ==
    CHOOSE h \in HeadingPositions(children) :
        Cardinality({j \in HeadingPositions(children) : j <= h}) = k

SetMax(S) == CHOOSE m \in S : \A x \in S : x <= m

\* C9 amended: the first heading opens the intro section and starts no
\* spread; every later heading starts a content spread that collects the
\* tables following it, so k >= 1 headings give k - 1 content spreads after
\* the cover, and the intro heading, then one heading with a memo paragraph
\* and a two-row table give one content spread with that memo and those
\* two words.
C9_LaterHeadingsStartSpreads ==
    phase = "ready"
        => LET children == page.children
               k == Cardinality(HeadingPositions(children))
           IN  /\ Len(BookApp.spreads) = 1 + Max(k - 1, 0)
               /\ ContentSpreads = 2..Len(BookApp.spreads)
               /\ \A n \in ContentSpreads :
                     LET tables == {i \in SectionOf(children, NthHeading(children, n)) :
                                        children[i].tagName = "TABLE"}
                     IN  BookApp.spreads[n].words =
                             IF tables = {} THEN <<>>
                             ELSE parseHTMLTable(children[SetMax(tables)])
               /\ children = <<Heading(TitleText)>> \o OneHeadingSource
                    => BookApp.spreads = <<coverSpread(<<>>), ScenarioSpread>>

\* C9 witness: the intro heading, a heading, the memo paragraph and the
\* two-row table have been extracted.
C9_Witness ==
    /\ phase = "ready"
    /\ page.children = <<Heading(TitleText)>> \o OneHeadingSource
    /\ Len(BookApp.spreads) = 2

\* C10: between events, with a non-empty spread list, the previous control
\* is disabled and the left page hinted exactly at the first spread, the
\* next control is disabled and the right page hinted exactly at the last.
C10_ControlsFollowIndex ==
    phase = "ready" /\ BookApp.spreads # <<>>
        => /\ "prevBtn" \in page.present => (view.prevDisabled <=> current = 0)
           /\ "nextBtn" \in page.present
                => (view.nextDisabled <=> current = BookApp.totalSpreads - 1)
           /\ "leftPage" \in page.present => (view.firstPage <=> current = 0)
           /\ "rightPage" \in page.present
                => (view.lastPage <=> current = BookApp.totalSpreads - 1)

\* C11: the page numbers on display follow currentSpreadIndex alone: a
\* content spread of index i shows 2i and 2i + 1, and the cover shows no
\* number, whatever was displayed before.
C11_PageNumbersFollowIndex ==
    phase = "ready" /\ BookApp.spreads # <<>> /\ PagesPresent
        => /\ "leftPageNumber" \in page.present
                => view.leftPageNumber = IF current = 0 THEN Null ELSE Some(2 * current)
           /\ "rightPageNumber" \in page.present
                => view.rightPageNumber = IF current = 0 THEN Null ELSE Some(2 * current + 1)

\* C12: a key press while #book-view is not active changes nothing: not
\* currentSpreadIndex, not the page, and the pending timer stays as it is.
C12_InactiveKeysIgnored ==
    [][\A key \in Keys :
         handleKeyboard(key) /\ ~view.bookViewActive
            => UNCHANGED <<BookApp, view, timers, nextTimerId>>]_vars

\* C12 witness: the book view is there and not active, a navigation asked
\* for by a button or a page click is pending, and no handler has rendered
\* since.
C12_Witness ==
    /\ phase = "ready"
    /\ "bookView" \in BookApp.elements
    /\ ~view.bookViewActive
    /\ timers # {}
    /\ BookApp.spreads # <<>>
    /\ ~log.rendered

\* C13: currentSpreadIndex changes only when a timer fires
\* (executeNavigation); every other handler after initialization leaves
\* currentSpreadIndex, spreads and totalSpreads as they are, and a non-empty
\* spread list is never changed.
C13_OnlyCommitMoves ==
    [][/\ BookApp'.currentSpreadIndex # current => \E t \in timers : timerFires(t)
       /\ BookApp.spreads # <<>>
            => /\ BookApp'.spreads = BookApp.spreads
               /\ BookApp'.totalSpreads = BookApp.totalSpreads
       /\ phase = "ready" /\ ~(\E t \in timers : timerFires(t))
            => /\ BookApp'.currentSpreadIndex = current
               /\ BookApp'.spreads = BookApp.spreads
               /\ BookApp'.totalSpreads = BookApp.totalSpreads]_vars

\* C13 witness: the book is past its first spread, the book view has been
\* opened, and a request is pending that has not moved the book.
C13_Witness ==
    /\ BookApp.spreads # <<>>
    /\ current > 0
    /\ ~page.bookActive /\ view.bookViewActive
    /\ timers # {}
    /\ \A t \in timers : t.spreadIndex # current

\* Whether the pattern of a tag matches at position q of a text, and then
\* where its group starts and where its closing bracket is.
GroupStart(text, q) == firstIndex(text, q + 3, {" ", "NL"}, FALSE)

GroupStop(text, q) ==
    IF GroupStart(text, q) = 0 THEN 0
    ELSE firstIndex(text, GroupStart(text, q), {"]", "NL"}, TRUE)

OccursAt(text, tag, q) ==
    /\ q + 2 <= Len(text)
    /\ text[q] = "[" /\ text[q + 1] = tag /\ text[q + 2] = ":"
    /\ GroupStop(text, q) # 0
    /\ text[GroupStop(text, q)] = "]"

\* The groups of the occurrences of a tag in a text from position p on, from
\* left to right.
RECURSIVE TagValues(_, _, _)
TagValues(text, tag, p) ==
    IF p > Len(text) THEN <<>>
    ELSE IF OccursAt(text, tag, p)
    THEN <<trim(SubSeq(text, GroupStart(text, p), GroupStop(text, p) - 1))>>
             \o TagValues(text, tag, GroupStop(text, p) + 1)
    ELSE TagValues(text, tag, p + 1)

\* The paragraphs of the section of the n-th heading that carry a tag.
TaggedParagraphs(children, n, tag) ==
    {i \in SectionOf(children, NthHeading(children, n)) :
        /\ children[i].tagName = "P"
        /\ TagValues(trim(children[i].text), tag, 1) # <<>>}

\* The value a content spread holds for a tag when each paragraph gives
\* the occurrence Pick chooses and the last tagged paragraph wins.
TagOfSpread(children, n, tag, Pick(_)) ==
    IF TaggedParagraphs(children, n, tag) = {} THEN Null
    ELSE Some(Pick(TagValues(trim(children[SetMax(TaggedParagraphs(children, n, tag))].text),
                             tag, 1)))

\* C14 as claimed: the memo and the photo caption of a content spread are
\* the last occurrence of their tag in the paragraph that carries it.
C14_LastOccurrenceWins ==
    phase = "ready"
        => \A n \in ContentSpreads :
              /\ BookApp.spreads[n].memo = TagOfSpread(page.children, n, "MEMO", Last)
              /\ BookApp.spreads[n].photo = TagOfSpread(page.children, n, "PHOTO", Last)

\* C14 amended: the memo and the photo caption of a content spread are the
\* first occurrence of their tag in the paragraph that carries it (the last
\* such paragraph of the section), each tag apart from the other.
C14_FirstOccurrenceWins ==
    phase = "ready"
        => \A n \in ContentSpreads :
              /\ BookApp.spreads[n].memo = TagOfSpread(page.children, n, "MEMO", Head)
              /\ BookApp.spreads[n].photo = TagOfSpread(page.children, n, "PHOTO", Head)

\* C14 witness: a content spread has been extracted from a section whose
\* paragraph carries each tag twice.
C14_Witness ==
    /\ phase = "ready"
    /\ page.children = <<Heading(TitleText), Heading(TitleText), Paragraph(DoubleTagParagraph)>>
    /\ BookApp.spreads[2].memo = Some(<<"a">>)
    /\ BookApp.spreads[2].photo = Some(<<"c">>)

\* The tables of the section of the n-th heading.
TablesOf(children, n) ==
    {i \in SectionOf(children, NthHeading(children, n)) : children[i].tagName = "TABLE"}

\* The rows of the table a content spread takes its words from: the last
\* table of its section.
RowsOf(children, n) ==
    IF TablesOf(children, n) = {} THEN <<>>
    ELSE children[SetMax(TablesOf(children, n))].rows

HasTwoCells(row) == Len(row) >= 2

NoOuterSpace(text) == text = <<>> \/ (~IsSpace(text[1]) /\ ~IsSpace(text[Len(text)]))

\* The words of a content spread are the rows of two cells or more, in
\* order: the first cell is the headword, the second the first attempt, the
\* others that are not blank the later attempts.
WordsFollowRows(n) ==
    LET kept == SelectSeq(RowsOf(page.children, n), HasTwoCells)
        words == BookApp.spreads[n].words
    IN  /\ Len(words) = Len(kept)
        /\ \A k \in DOMAIN words :
              /\ words[k].word = trim(kept[k][1])
              /\ words[k].first = trim(kept[k][2])
              /\ NoOuterSpace(words[k].word)
              /\ NoOuterSpace(words[k].first)
              /\ \A d \in DOMAIN words[k].developed :
                    words[k].developed[d] # <<>> /\ NoOuterSpace(words[k].developed[d])

\* C15 as claimed: every word entry has a non-empty headword, and a row of
\* fewer than two cells gives no entry.
C15_HeadwordNonEmpty ==
    phase = "ready"
        => \A n \in ContentSpreads :
              /\ WordsFollowRows(n)
              /\ \A k \in DOMAIN BookApp.spreads[n].words :
                    BookApp.spreads[n].words[k].word # <<>>

\* C15 amended: every word entry has a headword and a first attempt that
\* are the trimmed texts of the first two cells of its row, either of them
\* possibly empty, and a row of fewer than two cells gives no entry.
C15_WordsFollowRows ==
    phase = "ready" => \A n \in ContentSpreads : WordsFollowRows(n)

\* C15 witness: a table with a row of one cell, a full row and a row whose
\* first cell is blank has been extracted into two words, the second with
\* an empty headword.
C15_Witness ==
    /\ phase = "ready"
    /\ page.children
         = <<Heading(TitleText), Heading(TitleText), Table(<<ShortRow, DogRow, BlankRow>>)>>
    /\ Len(BookApp.spreads[2].words) = 2
    /\ BookApp.spreads[2].words[2].word = <<>>

\* The page click handlers take the click: no transition is marked and the
\* book is not at the boundary of the side.
LeftClickAccepted == ~BookApp.isTransitioning /\ current > 0

RightClickAccepted == ~BookApp.isTransitioning /\ current < BookApp.totalSpreads - 1

\* C16 as claimed: an accepted page click is committed at once: the book
\* moves by one spread and the timers are left as they are.
C16_ClickBypassesDebounce ==
    [][/\ handleLeftPageClick /\ LeftClickAccepted
            => BookApp'.currentSpreadIndex = current - 1 /\ timers' = timers
       /\ handleRightPageClick /\ RightClickAccepted
            => BookApp'.currentSpreadIndex = current + 1 /\ timers' = timers]_vars

\* C16 amended: an accepted page click goes through the debounce like any
\* other request: nothing is committed, the pending timer is cancelled and
\* the only pending timer is the one of the click.
C16_ClickIsDebounced ==
    [][/\ handleLeftPageClick /\ LeftClickAccepted
            => /\ BookApp'.currentSpreadIndex = current
               /\ view' = view
               /\ timers' = {Timer(nextTimerId, current - 1)}
       /\ handleRightPageClick /\ RightClickAccepted
            => /\ BookApp'.currentSpreadIndex = current
               /\ view' = view
               /\ timers' = {Timer(nextTimerId, current + 1)}]_vars

\* C16 witness: on a page without #prev-btn and with the book view not
\* active, where only a click on the left page asks for the previous
\* spread, such a request has replaced a pending one and is pending.
C16_Witness ==
    /\ phase = "ready"
    /\ "prevBtn" \notin page.present
    /\ ~view.bookViewActive
    /\ current > 0
    /\ log.requests >= 2
    /\ \E t \in timers : timers = {t} /\ t.spreadIndex = current - 1

\* The request for spread t was the last one, its timer has fired and no
\* request has been made since.
SettledOn(t) ==
    /\ phase = "ready"
    /\ timers = {}
    /\ log.lastTarget = Some(t)
    /\ log.commits # <<>>
    /\ Last(log.commits) = t

\* C17: once the timer of the last request, for a spread t of the book, has
\* fired and no request has followed, currentSpreadIndex is t, no timer is
\* pending and isTransitioning is false.
C17_RequestSettles ==
    \A t \in 0..(BookApp.totalSpreads - 1) :
        SettledOn(t) => current = t /\ timers = {} /\ ~BookApp.isTransitioning

\* C18: when the content spread at index i >= 1 has been rendered, the row
\* of its k-th word is the k-th row of the grid, shows that word and has the
\* number (i - 1) * wordsPerPage + k.
C18_RowsNumberedFromStart ==
    ContentRendered =>
        LET words == BookApp.spreads[current + 1].words
        IN  /\ Len(words) <= Len(view.wordList)
            /\ \A k \in 1..Len(words) :
                  /\ view.wordList[k].number = Some((current - 1) * wordsPerPage + k)
                  /\ view.wordList[k].word = escapeHtml(words[k].word)

\* C18 witness: the second content spread is shown with at least two words,
\* the first of them numbered wordsPerPage + 1.
C18_Witness ==
    /\ ContentRendered
    /\ current = 2
    /\ Len(BookApp.spreads[current + 1].words) >= 2
    /\ view.wordList[1].number = Some(wordsPerPage + 1)
    /\ view.wordList[2].number = Some(wordsPerPage + 2)

\* C20: isTransitioning is false whenever no handler is running, on every
\* host page.
C20_NotTransitioningAtRest == ~BookApp.isTransitioning

====
